---- MODULE Spec2Model ----
(***************************************************************************)
(* til::ticket_lock and til::recursive_ticket_lock (WindowEmperor.h).      *)
(*                                                                         *)
(* Every thread is a small program counter machine.  One action is one     *)
(* atomic access of the code (a fetch_add, a load, a store, a wait, a      *)
(* notify) or one plain read or write of the non-atomic _recursion field.  *)
(***************************************************************************)
EXTENDS Integers, Sequences, FiniteSets, TLC

\* ---- bounds ----------------------------------------------------------
NumThreads == 3      \* threads of the ticket_lock counter loop (N)
Iterations == 2      \* lock/increment/unlock rounds per thread (K)
TicketMod == 4       \* the ticket counters wrap at this value (2^32 in the code)
NumRecThreads == 2   \* threads using the recursive_ticket_lock
MaxCalls == 5        \* lock(), suspend() and query calls made in one run, over all threads

Threads == 1 .. NumThreads
RecThreads == 1 .. NumRecThreads

VARIABLES
    next_ticket,     \* ticket_lock::_next_ticket
    now_serving,     \* ticket_lock::_now_serving
    owner,           \* recursive_ticket_lock::_owner
    recursion,       \* recursive_ticket_lock::_recursion
    pc,              \* pc[t]: the statement thread t executes next
    ret,             \* ret[t]: where t continues when its ticket_lock call returns
    ticket,          \* ticket[t]: local `ticket` of ticket_lock::lock
    current,         \* current[t]: local `current` of ticket_lock::lock/_lockSlow
    tmp,             \* tmp[t]: the value t last read from a non-atomic field
    tokens,          \* tokens[t]: the suspension tokens alive on t's stack, innermost last
    result,          \* result[t]: the value a query is about to return to t
    counter,         \* the shared counter of the counter loop
    iter,            \* iter[t]: rounds of the counter loop t has finished
    queue,           \* history: threads holding a ticket, in ticket-issue order
    ncalls,          \* history: lock(), suspend() and query calls made so far
    calls,           \* history: calls[t][i] = t's unmatched lock() calls in window i
    quiet            \* history: quiet[t] tells whether anything but t's token
                     \*          destruction ran since t's last releasing suspend()

tlvars == <<next_ticket, now_serving>>
recvars == <<owner, recursion, tokens, result, calls, ncalls>>
loopvars == <<counter, iter>>
vars == <<next_ticket, now_serving, owner, recursion, pc, ret, ticket, current, tmp,
          tokens, result, counter, iter, queue, ncalls, calls, quiet>>

\* GetCurrentThreadId(): nonzero and unique per thread.
GetCurrentThreadId(t) == t

\* uint32_t x + 1 on a ticket counter.
Inc(x) == (x + 1) % TicketMod

\* The history `queue` without thread t.
Remove(q, t) == SelectSeq(q, LAMBDA x : x # t)

\* The history `quiet` after a step of thread t.  quiet[t] is "suspended"
\* from the start of a releasing suspend() of t for as long as nothing runs
\* but t's destruction of that token, "restored" once that destruction has
\* ended, and "no" as soon as another thread takes a step or t starts
\* anything else.
Note(t, kind) ==
    quiet' = [u \in DOMAIN quiet |->
                 IF u # t THEN "no"
                 ELSE IF kind = "suspend" THEN "suspended"
                 ELSE IF kind = "keep" THEN quiet[t]
                 ELSE IF kind = "destroy" /\ quiet[t] = "suspended" THEN "suspended"
                 ELSE IF kind = "restore" /\ quiet[t] = "suspended" THEN "restored"
                 ELSE "no"]

\* ---- ticket_lock -----------------------------------------------------

\* A call of ticket_lock::lock() / unlock() made by thread t, continues at ret[t] when the call returns.
Return(t) ==
    /\ pc' = [pc EXCEPT ![t] = ret[t]]
    /\ ret' = [ret EXCEPT ![t] = "none"]
    /\ ticket' = [ticket EXCEPT ![t] = 0]
    /\ current' = [current EXCEPT ![t] = 0]

\* A lock() that takes the incremented value as its ticket.
TL_lock_FetchAdd_PreInc(t) ==
    /\ pc[t] = "tl_fetch"
    /\ ticket' = [ticket EXCEPT ![t] = Inc(next_ticket)]
    /\ next_ticket' = Inc(next_ticket)
    /\ queue' = Append(queue, t)
    /\ pc' = [pc EXCEPT ![t] = "tl_load"]
    /\ Note(t, "keep")
    /\ UNCHANGED <<now_serving, ret, current, tmp, recvars, loopvars>>

\* const auto ticket = _next_ticket.fetch_add(1, relaxed);
TL_lock_FetchAdd(t) ==
    /\ pc[t] = "tl_fetch"
    /\ ticket' = [ticket EXCEPT ![t] = next_ticket]
    /\ next_ticket' = Inc(next_ticket)
    /\ queue' = Append(queue, t)
    /\ pc' = [pc EXCEPT ![t] = "tl_load"]
    /\ Note(t, "keep")
    /\ UNCHANGED <<now_serving, ret, current, tmp, recvars, loopvars>>

\* A comparison by order instead of by identity.
TicketIsServed_Ordered(tk, cur) == tk <= cur

\* The test `ticket != current` of lock() and `current != ticket` of _lockSlow.
TicketIsServed(tk, cur) == tk = cur

\* const auto current = _now_serving.load(acquire); if (ticket != current) _lockSlow(...)
TL_lock_Load(t) ==
    /\ pc[t] = "tl_load"
    /\ IF TicketIsServed(ticket[t], now_serving)
       THEN Return(t)
       ELSE /\ current' = [current EXCEPT ![t] = now_serving]
            /\ pc' = [pc EXCEPT ![t] = "tl_wait"]
            /\ UNCHANGED <<ret, ticket>>
    /\ Note(t, "keep")
    /\ UNCHANGED <<tlvars, tmp, recvars, loopvars, queue>>

\* til::atomic_wait(_now_serving, current): returns at once when the value
\* differs from `current`, else the thread sleeps until it is notified.
AtomicWait(t) ==
    /\ pc[t] = "tl_wait"
    /\ pc' = [pc EXCEPT ![t] = IF now_serving = current[t] THEN "tl_asleep" ELSE "tl_reload"]
    /\ Note(t, "keep")
    /\ UNCHANGED <<tlvars, ret, ticket, current, tmp, recvars, loopvars, queue>>

\* A woken thread that returns without re-checking its ticket.
TL_lockSlow_Reload_NoLoop(t) ==
    /\ pc[t] = "tl_reload"
    /\ Return(t)
    /\ Note(t, "keep")
    /\ UNCHANGED <<tlvars, tmp, recvars, loopvars, queue>>

\* current = _now_serving.load(acquire); } while (current != ticket);
TL_lockSlow_Reload(t) ==
    /\ pc[t] = "tl_reload"
    /\ IF TicketIsServed(ticket[t], now_serving)
       THEN Return(t)
       ELSE /\ current' = [current EXCEPT ![t] = now_serving]
            /\ pc' = [pc EXCEPT ![t] = "tl_wait"]
            /\ UNCHANGED <<ret, ticket>>
    /\ Note(t, "keep")
    /\ UNCHANGED <<tlvars, tmp, recvars, loopvars, queue>>

\* _now_serving.fetch_add(1, release);
TL_unlock_FetchAdd(t) ==
    /\ pc[t] = "tu_inc"
    /\ now_serving' = Inc(now_serving)
    /\ queue' = Remove(queue, t)
    /\ pc' = [pc EXCEPT ![t] = "tu_notify"]
    /\ Note(t, "keep")
    /\ UNCHANGED <<next_ticket, ret, ticket, current, tmp, recvars, loopvars>>

Asleep == {u \in DOMAIN pc : pc[u] = "tl_asleep"}

\* The threads til::atomic_notify_one(_now_serving) wakes: one of the sleepers.
Woken == IF Asleep = {} THEN {{}} ELSE {{u} : u \in Asleep}

\* An unlock() that wakes nobody.
TL_unlock_Notify_None(t) ==
    /\ pc[t] = "tu_notify"
    /\ pc' = [pc EXCEPT ![t] = ret[t]]
    /\ ret' = [ret EXCEPT ![t] = "none"]
    /\ Note(t, "keep")
    /\ UNCHANGED <<tlvars, ticket, current, tmp, recvars, loopvars, queue>>

\* til::atomic_notify_one(_now_serving);
TL_unlock_Notify(t) ==
    /\ pc[t] = "tu_notify"
    /\ \E W \in Woken :
          pc' = [u \in DOMAIN pc |->
                    IF u = t THEN ret[t]
                    ELSE IF u \in W THEN "tl_reload"
                    ELSE pc[u]]
    /\ ret' = [ret EXCEPT ![t] = "none"]
    /\ Note(t, "keep")
    /\ UNCHANGED <<tlvars, ticket, current, tmp, recvars, loopvars, queue>>

TicketLockStep(t) ==
    \/ TL_lock_FetchAdd(t)
    \/ TL_lock_Load(t)
    \/ AtomicWait(t)
    \/ TL_lockSlow_Reload(t)
    \/ TL_unlock_FetchAdd(t)
    \/ TL_unlock_Notify(t)

\* ---- the counter loop: lock(); counter += 1; unlock();  K times -------

\* counter += 1, the read.
Loop_Read(t) ==
    /\ pc[t] = "h_read"
    /\ tmp' = [tmp EXCEPT ![t] = counter]
    /\ pc' = [pc EXCEPT ![t] = "h_write"]
    /\ Note(t, "keep")
    /\ UNCHANGED <<tlvars, ret, ticket, current, counter, iter, recvars, queue>>

\* counter += 1, the write; then the call of unlock().
Loop_Write(t) ==
    /\ pc[t] = "h_write"
    /\ counter' = tmp[t] + 1
    /\ tmp' = [tmp EXCEPT ![t] = 0]
    /\ pc' = [pc EXCEPT ![t] = "tu_inc"]
    /\ ret' = [ret EXCEPT ![t] = "h_next"]
    /\ Note(t, "keep")
    /\ UNCHANGED <<tlvars, ticket, current, iter, recvars, queue>>

\* End of one round: call lock() again, or finish after K rounds.
Loop_Next(t) ==
    /\ pc[t] = "h_next"
    /\ iter' = [iter EXCEPT ![t] = iter[t] + 1]
    /\ IF iter[t] + 1 < Iterations
       THEN /\ pc' = [pc EXCEPT ![t] = "tl_fetch"]
            /\ ret' = [ret EXCEPT ![t] = "h_read"]
       ELSE /\ pc' = [pc EXCEPT ![t] = "done"]
            /\ UNCHANGED ret
    /\ Note(t, "keep")
    /\ UNCHANGED <<tlvars, ticket, current, tmp, counter, recvars, queue>>

LoopStep(t) == Loop_Read(t) \/ Loop_Write(t) \/ Loop_Next(t)

\* Both counters start at 0; every thread is about to call lock().
InitTicket ==
    /\ next_ticket = 0
    /\ now_serving = 0
    /\ pc = [t \in Threads |-> "tl_fetch"]
    /\ ret = [t \in Threads |-> "h_read"]
    /\ ticket = [t \in Threads |-> 0]
    /\ current = [t \in Threads |-> 0]
    /\ tmp = [t \in Threads |-> 0]
    /\ counter = 0
    /\ iter = [t \in Threads |-> 0]
    /\ queue = <<>>
    /\ owner = 0
    /\ recursion = 0
    /\ tokens = [t \in Threads |-> <<>>]
    /\ result = [t \in Threads |-> 0]
    /\ ncalls = 0
    /\ calls = [t \in Threads |-> <<[n |-> 0, relocked |-> FALSE]>>]
    /\ quiet = [t \in Threads |-> "no"]

ThreadTicket(t) == TicketLockStep(t) \/ LoopStep(t)

NextTicket == \E t \in Threads : ThreadTicket(t)

SpecTicket == InitTicket /\ [][NextTicket]_vars

\* Fair scheduling: a thread that can take a step eventually takes one.
SpecTicketFair == SpecTicket /\ \A t \in Threads : WF_vars(ThreadTicket(t))

\* ---- ticket_lock used outside its contract ----------------------------
\* "Forgetting to call unlock or calling unlock more than once, will lead to
\* deadlocks": threads call lock() and unlock() in pairs, and in one place of
\* the run one thread forgets its unlock() or calls it twice.

\* The lock() calls made so far: the counters have not wrapped in this use.
CallsMade == next_ticket + Cardinality({u \in Threads : pc[u] = "tl_fetch"})

\* No thread has misused the lock yet.
NoMisuse ==
    \A u \in Threads : /\ pc[u] \notin {"m_forgot", "m_twice", "m_twice_done"}
                        /\ ret[u] \notin {"m_twice", "m_twice_done"}

\* t calls lock(); fewer than TicketMod calls are made in all.
Misuse_Lock(t) ==
    /\ pc[t] = "m_idle"
    /\ CallsMade + 1 < TicketMod
    /\ pc' = [pc EXCEPT ![t] = "tl_fetch"]
    /\ ret' = [ret EXCEPT ![t] = "m_held"]
    /\ Note(t, "keep")
    /\ UNCHANGED <<tlvars, ticket, current, tmp, recvars, loopvars, queue>>

\* t, holding the lock, calls unlock() once.
Misuse_Unlock(t) ==
    /\ pc[t] = "m_held"
    /\ pc' = [pc EXCEPT ![t] = "tu_inc"]
    /\ ret' = [ret EXCEPT ![t] = "m_idle"]
    /\ Note(t, "keep")
    /\ UNCHANGED <<tlvars, ticket, current, tmp, recvars, loopvars, queue>>

\* t, holding the lock, ends without ever calling unlock().
Misuse_Forget(t) ==
    /\ pc[t] = "m_held"
    /\ NoMisuse
    /\ pc' = [pc EXCEPT ![t] = "m_forgot"]
    /\ Note(t, "keep")
    /\ UNCHANGED <<tlvars, ret, ticket, current, tmp, recvars, loopvars, queue>>

\* t, holding the lock, calls unlock() and will call it a second time.
Misuse_UnlockTwice(t) ==
    /\ pc[t] = "m_held"
    /\ NoMisuse
    /\ pc' = [pc EXCEPT ![t] = "tu_inc"]
    /\ ret' = [ret EXCEPT ![t] = "m_twice"]
    /\ Note(t, "keep")
    /\ UNCHANGED <<tlvars, ticket, current, tmp, recvars, loopvars, queue>>

\* The second unlock() for the one lock(); t ends after it.
Misuse_UnlockAgain(t) ==
    /\ pc[t] = "m_twice"
    /\ pc' = [pc EXCEPT ![t] = "tu_inc"]
    /\ ret' = [ret EXCEPT ![t] = "m_twice_done"]
    /\ Note(t, "keep")
    /\ UNCHANGED <<tlvars, ticket, current, tmp, recvars, loopvars, queue>>

MisuseStep(t) ==
    \/ Misuse_Lock(t)
    \/ Misuse_Unlock(t)
    \/ Misuse_Forget(t)
    \/ Misuse_UnlockTwice(t)
    \/ Misuse_UnlockAgain(t)

\* Both counters start at 0; no thread has called lock() yet.
InitMisuse ==
    /\ next_ticket = 0
    /\ now_serving = 0
    /\ pc = [t \in Threads |-> "m_idle"]
    /\ ret = [t \in Threads |-> "none"]
    /\ ticket = [t \in Threads |-> 0]
    /\ current = [t \in Threads |-> 0]
    /\ tmp = [t \in Threads |-> 0]
    /\ counter = 0
    /\ iter = [t \in Threads |-> 0]
    /\ queue = <<>>
    /\ owner = 0
    /\ recursion = 0
    /\ tokens = [t \in Threads |-> <<>>]
    /\ result = [t \in Threads |-> 0]
    /\ ncalls = 0
    /\ calls = [t \in Threads |-> <<[n |-> 0, relocked |-> FALSE]>>]
    /\ quiet = [t \in Threads |-> "no"]

ThreadMisuse(t) == TicketLockStep(t) \/ MisuseStep(t)

NextMisuse == \E t \in Threads : ThreadMisuse(t)

SpecMisuse == InitMisuse /\ [][NextMisuse]_vars

\* Fair scheduling: a thread that can take a step eventually takes one.
SpecMisuseFair == SpecMisuse /\ \A t \in Threads : WF_vars(ThreadMisuse(t))

\* ---- recursive_ticket_lock --------------------------------------------

Last(q) == q[Len(q)]
Front(q) == SubSeq(q, 1, Len(q) - 1)

\* History: the window a new suspension token opens.
NewWindow == [n |-> 0, relocked |-> FALSE]

\* One more of the MaxCalls calls of a run.
NewCall == ncalls < MaxCalls /\ ncalls' = ncalls + 1

\* History: thread t calls lock() (d = 1) or unlock() (d = -1) in its current window.
Count(t, d) ==
    calls' = [calls EXCEPT ![t] =
                 [@ EXCEPT ![Len(@)] = [n |-> @.n + d,
                                        relocked |-> @.relocked \/ (d = 1 /\ Len(calls[t]) > 1)]]]

\* History: the window of t's innermost token closes into the one around it.
CloseWindow(t) ==
    calls' = [calls EXCEPT ![t] =
                 LET in == Last(@)
                     out == @[Len(@) - 1]
                 IN  Append(SubSeq(@, 1, Len(@) - 2),
                            [n |-> out.n + in.n,
                             relocked |-> Len(@) > 2 /\ (out.relocked \/ in.relocked)])]

\* lock(): a lock that always takes the inner ticket_lock.
LockNeedsInner_Always(t) == TRUE

\* A lock() that takes the inner lock only when another thread is the owner.
LockNeedsInner_IfOwned(t) == owner # 0 /\ owner # GetCurrentThreadId(t)

\* lock(): if (_owner.load(relaxed) != id)
LockNeedsInner(t) == owner # GetCurrentThreadId(t)

\* lock(), the owner test; the call of _lock.lock() when it is another thread's.
RL_lock_LoadOwner(t) ==
    /\ pc[t] = "idle"
    /\ NewCall
    /\ Count(t, 1)
    /\ IF LockNeedsInner(t)
       THEN /\ pc' = [pc EXCEPT ![t] = "tl_fetch"]
            /\ ret' = [ret EXCEPT ![t] = "rl_store"]
       ELSE /\ pc' = [pc EXCEPT ![t] = "rl_read"]
            /\ UNCHANGED ret
    /\ Note(t, "clear")
    /\ UNCHANGED <<tlvars, owner, recursion, ticket, current, tmp, tokens, result, loopvars, queue>>

\* _owner.store(id, relaxed);
RL_lock_StoreOwner(t) ==
    /\ pc[t] = "rl_store"
    /\ owner' = GetCurrentThreadId(t)
    /\ pc' = [pc EXCEPT ![t] = "rl_read"]
    /\ Note(t, "keep")
    /\ UNCHANGED <<tlvars, recursion, ret, ticket, current, tmp, tokens, result, calls, loopvars, queue, ncalls>>

\* _recursion++, the read.
RL_lock_ReadRecursion(t) ==
    /\ pc[t] = "rl_read"
    /\ tmp' = [tmp EXCEPT ![t] = recursion]
    /\ pc' = [pc EXCEPT ![t] = "rl_write"]
    /\ Note(t, "keep")
    /\ UNCHANGED <<tlvars, owner, recursion, ret, ticket, current, tokens, result, calls, loopvars, queue, ncalls>>

\* _recursion++, the write; lock() returns.
RL_lock_WriteRecursion(t) ==
    /\ pc[t] = "rl_write"
    /\ recursion' = tmp[t] + 1
    /\ tmp' = [tmp EXCEPT ![t] = 0]
    /\ pc' = [pc EXCEPT ![t] = "idle"]
    /\ Note(t, "keep")
    /\ UNCHANGED <<tlvars, owner, ret, ticket, current, tokens, result, calls, loopvars, queue, ncalls>>

\* unlock(): --_recursion, the read.
RL_unlock_ReadRecursion(t) ==
    /\ pc[t] = "idle"
    /\ Last(calls[t]).n > 0
    /\ Count(t, -1)
    /\ tmp' = [tmp EXCEPT ![t] = recursion]
    /\ pc' = [pc EXCEPT ![t] = "ru_write"]
    /\ Note(t, "clear")
    /\ UNCHANGED <<tlvars, owner, recursion, ret, ticket, current, tokens, result, loopvars, queue, ncalls>>

\* unlock(): a release on every call.
UnlockReleases_Always(r) == TRUE

\* An unlock() that releases the lock one level early.
UnlockReleases_AtOne(r) == r <= 1

\* unlock(): if (--_recursion == 0)
UnlockReleases(r) == r = 0

\* --_recursion, the write, and the test of the new value.
RL_unlock_WriteRecursion(t) ==
    /\ pc[t] = "ru_write"
    /\ recursion' = tmp[t] - 1
    /\ tmp' = [tmp EXCEPT ![t] = 0]
    /\ pc' = [pc EXCEPT ![t] = IF UnlockReleases(tmp[t] - 1) THEN "ru_store" ELSE "idle"]
    /\ Note(t, "keep")
    /\ UNCHANGED <<tlvars, owner, ret, ticket, current, tokens, result, calls, loopvars, queue, ncalls>>

\* An unlock() that releases the inner lock without clearing owner.
RL_unlock_StoreOwner_Skip(t) ==
    /\ pc[t] = "ru_store"
    /\ pc' = [pc EXCEPT ![t] = "tu_inc"]
    /\ ret' = [ret EXCEPT ![t] = "idle"]
    /\ Note(t, "keep")
    /\ UNCHANGED <<tlvars, owner, recursion, ticket, current, tmp, tokens, result, calls, loopvars, queue, ncalls>>

\* _owner.store(0, relaxed); then the call of _lock.unlock().
RL_unlock_StoreOwner(t) ==
    /\ pc[t] = "ru_store"
    /\ owner' = 0
    /\ pc' = [pc EXCEPT ![t] = "tu_inc"]
    /\ ret' = [ret EXCEPT ![t] = "idle"]
    /\ Note(t, "keep")
    /\ UNCHANGED <<tlvars, recursion, ticket, current, tmp, tokens, result, calls, loopvars, queue, ncalls>>

\* suspend(): a release by whoever calls it while the lock is held.
SuspendIsOwner_AnyHolder(t) == owner # 0

\* suspend(): if (_owner.load(relaxed) == id)
SuspendIsOwner(t) == owner = GetCurrentThreadId(t)

\* suspend(), the owner test; a caller that is not the owner gets { *this, 0, 0 }.
RL_suspend_LoadOwner(t) ==
    /\ pc[t] = "idle"
    /\ NewCall
    /\ IF SuspendIsOwner(t)
       THEN /\ pc' = [pc EXCEPT ![t] = "rs_read"]
            /\ Note(t, "suspend")
            /\ UNCHANGED <<tokens, calls>>
       ELSE /\ tokens' = [tokens EXCEPT ![t] = Append(@, [owner |-> 0, recursion |-> 0])]
            /\ calls' = [calls EXCEPT ![t] = Append(@, NewWindow)]
            /\ Note(t, "clear")
            /\ UNCHANGED pc
    /\ UNCHANGED <<tlvars, owner, recursion, ret, ticket, current, tmp, result, loopvars, queue>>

\* A suspend() that captures _recursion only after resetting it.
RL_suspend_ReadRecursion_Stale(t) ==
    /\ pc[t] = "rs_read"
    /\ tmp' = [tmp EXCEPT ![t] = 0]
    /\ pc' = [pc EXCEPT ![t] = "rs_store"]
    /\ Note(t, "keep")
    /\ UNCHANGED <<tlvars, owner, recursion, ret, ticket, current, tokens, result, calls, loopvars, queue, ncalls>>

\* owner = id; recursion = _recursion;
RL_suspend_ReadRecursion(t) ==
    /\ pc[t] = "rs_read"
    /\ tmp' = [tmp EXCEPT ![t] = recursion]
    /\ pc' = [pc EXCEPT ![t] = "rs_store"]
    /\ Note(t, "keep")
    /\ UNCHANGED <<tlvars, owner, recursion, ret, ticket, current, tokens, result, calls, loopvars, queue, ncalls>>

\* _owner.store(0, relaxed);
RL_suspend_StoreOwner(t) ==
    /\ pc[t] = "rs_store"
    /\ owner' = 0
    /\ pc' = [pc EXCEPT ![t] = "rs_zero"]
    /\ Note(t, "keep")
    /\ UNCHANGED <<tlvars, recursion, ret, ticket, current, tmp, tokens, result, calls, loopvars, queue, ncalls>>

\* A suspend() that leaves _recursion as it is.
RL_suspend_ZeroRecursion_Skip(t) ==
    /\ pc[t] = "rs_zero"
    /\ pc' = [pc EXCEPT ![t] = "tu_inc"]
    /\ ret' = [ret EXCEPT ![t] = "rs_ret"]
    /\ Note(t, "keep")
    /\ UNCHANGED <<tlvars, owner, recursion, ticket, current, tmp, tokens, result, calls, loopvars, queue, ncalls>>

\* _recursion = 0; then the call of _lock.unlock().
RL_suspend_ZeroRecursion(t) ==
    /\ pc[t] = "rs_zero"
    /\ recursion' = 0
    /\ pc' = [pc EXCEPT ![t] = "tu_inc"]
    /\ ret' = [ret EXCEPT ![t] = "rs_ret"]
    /\ Note(t, "keep")
    /\ UNCHANGED <<tlvars, owner, ticket, current, tmp, tokens, result, calls, loopvars, queue, ncalls>>

\* return { *this, owner, recursion };
RL_suspend_Return(t) ==
    /\ pc[t] = "rs_ret"
    /\ tokens' = [tokens EXCEPT ![t] =
                     Append(@, [owner |-> GetCurrentThreadId(t), recursion |-> tmp[t]])]
    /\ calls' = [calls EXCEPT ![t] = Append(@, NewWindow)]
    /\ tmp' = [tmp EXCEPT ![t] = 0]
    /\ pc' = [pc EXCEPT ![t] = "idle"]
    /\ Note(t, "keep")
    /\ UNCHANGED <<tlvars, owner, recursion, ret, ticket, current, result, loopvars, queue, ncalls>>

\* ~recursive_ticket_lock_suspension(): a restore that never re-locks.
RestoreNeedsInner_Never(tok) == FALSE

\* ~recursive_ticket_lock_suspension(): if (_lock._owner.load(relaxed) != _owner)
RestoreNeedsInner(tok) == owner # tok.owner

\* ~recursive_ticket_lock_suspension(): if (_owner), the owner test, and the
\* call of _lock._lock.lock() when the lock is not this thread's again.
Token_Destroy_LoadOwner(t) ==
    /\ pc[t] = "idle"
    /\ tokens[t] # <<>>
    /\ IF Last(tokens[t]).owner = 0
       THEN /\ tokens' = [tokens EXCEPT ![t] = Front(@)]
            /\ CloseWindow(t)
            /\ Note(t, "clear")
            /\ UNCHANGED <<pc, ret>>
       ELSE /\ IF RestoreNeedsInner(Last(tokens[t]))
               THEN /\ pc' = [pc EXCEPT ![t] = "tl_fetch"]
                    /\ ret' = [ret EXCEPT ![t] = "rd_store"]
               ELSE /\ pc' = [pc EXCEPT ![t] = "rd_read"]
                    /\ UNCHANGED ret
            /\ Note(t, "destroy")
            /\ UNCHANGED <<tokens, calls>>
    /\ UNCHANGED <<tlvars, owner, recursion, ticket, current, tmp, result, loopvars, queue, ncalls>>

\* _lock._owner.store(_owner, relaxed);
Token_Destroy_StoreOwner(t) ==
    /\ pc[t] = "rd_store"
    /\ owner' = Last(tokens[t]).owner
    /\ pc' = [pc EXCEPT ![t] = "rd_read"]
    /\ Note(t, "keep")
    /\ UNCHANGED <<tlvars, recursion, ret, ticket, current, tmp, tokens, result, calls, loopvars, queue, ncalls>>

\* _lock._recursion += _recursion, the read.
Token_Destroy_ReadRecursion(t) ==
    /\ pc[t] = "rd_read"
    /\ tmp' = [tmp EXCEPT ![t] = recursion]
    /\ pc' = [pc EXCEPT ![t] = "rd_write"]
    /\ Note(t, "keep")
    /\ UNCHANGED <<tlvars, owner, recursion, ret, ticket, current, tokens, result, calls, loopvars, queue, ncalls>>

\* A restore that overwrites the recursion count.
RestoredRecursion_Overwrite(cur, tok) == tok.recursion

\* _lock._recursion += _recursion, the value written.
RestoredRecursion(cur, tok) == cur + tok.recursion

\* _lock._recursion += _recursion, the write; the token is gone.
Token_Destroy_WriteRecursion(t) ==
    /\ pc[t] = "rd_write"
    /\ recursion' = RestoredRecursion(tmp[t], Last(tokens[t]))
    /\ tokens' = [tokens EXCEPT ![t] = Front(@)]
    /\ CloseWindow(t)
    /\ tmp' = [tmp EXCEPT ![t] = 0]
    /\ pc' = [pc EXCEPT ![t] = "idle"]
    /\ Note(t, "restore")
    /\ UNCHANGED <<tlvars, owner, ret, ticket, current, result, loopvars, queue, ncalls>>

\* An is_locked() that reports any holder.
is_locked_AnyHolder(t) == IF owner # 0 THEN 1 ELSE 0

\* uint32_t is_locked(): _owner.load(relaxed) == id
is_locked(t) == IF owner = GetCurrentThreadId(t) THEN 1 ELSE 0

\* A call of is_locked().
RL_is_locked(t) ==
    /\ pc[t] = "idle"
    /\ NewCall
    /\ result' = [result EXCEPT ![t] = is_locked(t)]
    /\ pc' = [pc EXCEPT ![t] = "rq_locked"]
    /\ Note(t, "clear")
    /\ UNCHANGED <<tlvars, owner, recursion, ret, ticket, current, tmp, tokens, calls, loopvars, queue>>

\* recursion_depth(): is_locked() ? ... : 0
RL_recursion_depth_IsLocked(t) ==
    /\ pc[t] = "idle"
    /\ NewCall
    /\ IF is_locked(t) # 0
       THEN /\ pc' = [pc EXCEPT ![t] = "rq_read"]
            /\ UNCHANGED result
       ELSE /\ pc' = [pc EXCEPT ![t] = "rq_depth"]
            /\ result' = [result EXCEPT ![t] = 0]
    /\ Note(t, "clear")
    /\ UNCHANGED <<tlvars, owner, recursion, ret, ticket, current, tmp, tokens, calls, loopvars, queue>>

\* recursion_depth(): ... ? _recursion : ...
RL_recursion_depth_Read(t) ==
    /\ pc[t] = "rq_read"
    /\ result' = [result EXCEPT ![t] = recursion]
    /\ pc' = [pc EXCEPT ![t] = "rq_depth"]
    /\ Note(t, "keep")
    /\ UNCHANGED <<tlvars, owner, recursion, ret, ticket, current, tmp, tokens, calls, loopvars, queue, ncalls>>

\* The caller has seen the value a query returned.
RL_query_Return(t) ==
    /\ pc[t] \in {"rq_locked", "rq_depth"}
    /\ result' = [result EXCEPT ![t] = 0]
    /\ pc' = [pc EXCEPT ![t] = "idle"]
    /\ Note(t, "keep")
    /\ UNCHANGED <<tlvars, owner, recursion, ret, ticket, current, tmp, tokens, calls, loopvars, queue, ncalls>>

RecursiveLockStep(t) ==
    \/ RL_lock_LoadOwner(t)
    \/ RL_lock_StoreOwner(t)
    \/ RL_lock_ReadRecursion(t)
    \/ RL_lock_WriteRecursion(t)
    \/ RL_unlock_ReadRecursion(t)
    \/ RL_unlock_WriteRecursion(t)
    \/ RL_unlock_StoreOwner(t)
    \/ RL_suspend_LoadOwner(t)
    \/ RL_suspend_ReadRecursion(t)
    \/ RL_suspend_StoreOwner(t)
    \/ RL_suspend_ZeroRecursion(t)
    \/ RL_suspend_Return(t)
    \/ Token_Destroy_LoadOwner(t)
    \/ Token_Destroy_StoreOwner(t)
    \/ Token_Destroy_ReadRecursion(t)
    \/ Token_Destroy_WriteRecursion(t)
    \/ RL_is_locked(t)
    \/ RL_recursion_depth_IsLocked(t)
    \/ RL_recursion_depth_Read(t)
    \/ RL_query_Return(t)

\* A freshly constructed lock: ticket counters 0, owner 0, recursion 0.
InitRec ==
    /\ next_ticket = 0
    /\ now_serving = 0
    /\ owner = 0
    /\ recursion = 0
    /\ pc = [t \in RecThreads |-> "idle"]
    /\ ret = [t \in RecThreads |-> "none"]
    /\ ticket = [t \in RecThreads |-> 0]
    /\ current = [t \in RecThreads |-> 0]
    /\ tmp = [t \in RecThreads |-> 0]
    /\ tokens = [t \in RecThreads |-> <<>>]
    /\ result = [t \in RecThreads |-> 0]
    /\ counter = 0
    /\ iter = [t \in RecThreads |-> 0]
    /\ queue = <<>>
    /\ ncalls = 0
    /\ calls = [t \in RecThreads |-> <<NewWindow>>]
    /\ quiet = [t \in RecThreads |-> "no"]

ThreadRec(t) == TicketLockStep(t) \/ RecursiveLockStep(t)

NextRec == \E t \in RecThreads : ThreadRec(t)

SpecRec == InitRec /\ [][NextRec]_vars

\* "this ticket_lock is primarily used to synchronize exactly 2 threads".
Pair == {1, 2}

\* The recursive lock shared by exactly two threads, both at rest.
InitPair ==
    /\ next_ticket = 0
    /\ now_serving = 0
    /\ owner = 0
    /\ recursion = 0
    /\ pc = [t \in Pair |-> "idle"]
    /\ ret = [t \in Pair |-> "none"]
    /\ ticket = [t \in Pair |-> 0]
    /\ current = [t \in Pair |-> 0]
    /\ tmp = [t \in Pair |-> 0]
    /\ tokens = [t \in Pair |-> <<>>]
    /\ result = [t \in Pair |-> 0]
    /\ counter = 0
    /\ iter = [t \in Pair |-> 0]
    /\ queue = <<>>
    /\ ncalls = 0
    /\ calls = [t \in Pair |-> <<NewWindow>>]
    /\ quiet = [t \in Pair |-> "no"]

NextPair == \E t \in Pair : ThreadRec(t)

\* Fair scheduling of the two threads: a thread that can take a step
\* eventually takes one, so every holder eventually releases.
SpecPairFair == InitPair /\ [][NextPair]_vars /\ \A t \in Pair : WF_vars(ThreadRec(t))

\* ---- ticket_lock: properties ----------------------------------------

\* Thread t is between the return of its lock() and the fetch_add of its unlock().
Holding(t) == pc[t] \in {"h_read", "h_write", "tu_inc"}

\* Thread t is inside ticket_lock::lock(), its ticket taken.
InLock(t) == pc[t] \in {"tl_load", "tl_wait", "tl_asleep", "tl_reload"}

AllDone == \A t \in Threads : pc[t] = "done"

\* C1: mutual exclusion.  At most one thread is between the return of its
\* lock() and its unlock(), and once all N threads have finished their K
\* rounds of the non-atomic counter += 1 the counter equals N*K.
C1_MutualExclusion ==
    /\ \A t, u \in Threads : (t # u /\ Holding(t)) => ~Holding(u)
    /\ AllDone => counter = NumThreads * Iterations

\* All threads finished all their rounds, after the ticket counters wrapped.
C1_Witness == AllDone /\ counter = NumThreads * Iterations /\ queue = <<>>

\* C2: FIFO.  If A took its ticket before B and has not yet called unlock(),
\* B's lock() has not returned: B is still inside lock().
C2_FIFO ==
    \A i, j \in 1 .. Len(queue) : i < j => InLock(queue[j])

\* A holds the lock while B and a third thread, ticketed in that order, wait.
C2_Witness ==
    /\ Len(queue) = NumThreads
    /\ Holding(queue[1])
    /\ pc[queue[2]] = "tl_asleep"
    /\ pc[queue[3]] = "tl_asleep"

\* C3: no starvation.  Under fair scheduling, with every holder calling
\* unlock(), every call of lock() eventually returns.
C3_NoStarvation == \A t \in Threads : InLock(t) ~> ~InLock(t)

\* ---- recursive_ticket_lock: properties ------------------------------

Idle(t) == pc[t] = "idle"

\* History: the unmatched lock() calls of t in its current window.
Top(t) == Last(calls[t]).n

\* History: the unmatched lock() calls t had when its innermost token was made.
Saved(t) == calls[t][Len(calls[t]) - 1].n

\* t has a ticket, its _lock.lock() has returned, its _lock.unlock() has not run.
HoldsInner(t) == (\E i \in 1 .. Len(queue) : queue[i] = t) /\ ~InLock(t)

\* t is inside _lock.lock(), called from `from`.
InInnerLock(t, from) == (pc[t] = "tl_fetch" \/ InLock(t)) /\ ret[t] = from

\* uint32_t recursion_depth(): is_locked() ? _recursion : 0
recursion_depth(t) == IF is_locked(t) # 0 THEN recursion ELSE 0

\* The innermost token of t is one that released the lock.
Releasing(t) == tokens[t] # <<>> /\ Last(tokens[t]).owner # 0

\* The first step of the destruction of t's innermost releasing token.
DestroyBegins(t) == Idle(t) /\ (ret'[t] = "rd_store" \/ pc'[t] = "rd_read")

\* The step that ends the destruction of t's innermost releasing token.
Restored(t) == pc[t] = "rd_write" /\ pc'[t] = "idle"

\* C4: reentrancy.  Only the first lock() of a window takes the inner
\* ticket_lock, and a thread never holds two tickets; a thread at rest with
\* k >= 1 unmatched lock() calls sees is_locked() and recursion_depth() = k
\* and holds the inner lock; with none left it sees is_locked() false,
\* recursion_depth() 0 and has released the inner lock.
C4_Reentrancy ==
    \A t \in RecThreads :
        /\ InInnerLock(t, "rl_store") => Top(t) = 1
        /\ Cardinality({i \in 1 .. Len(queue) : queue[i] = t}) <= 1
        /\ Idle(t) => /\ recursion_depth(t) = Top(t)
                      /\ is_locked(t) = (IF Top(t) > 0 THEN 1 ELSE 0)
                      /\ HoldsInner(t) <=> Top(t) > 0

\* A thread at rest after three successive lock() calls, no token involved.
C4_Witness ==
    \E t \in RecThreads :
        /\ Idle(t) /\ tokens[t] = <<>> /\ calls[t] = <<[n |-> 3, relocked |-> FALSE]>>
        /\ recursion_depth(t) = 3 /\ is_locked(t) = 1 /\ queue = <<t>>

\* C5: suspend/resume round trip.  When a thread suspends at depth d and the
\* token is destroyed with no step of any thread in between, the destruction
\* ends with owner = that thread, recursion = d and the inner lock held.
C5_RoundTrip ==
    [][\A t \in RecThreads :
          (Restored(t) /\ quiet[t] = "suspended") =>
              /\ owner' = GetCurrentThreadId(t)
              /\ recursion' = Saved(t)
              /\ recursion' >= 1
              /\ HoldsInner(t)']_vars

\* A round trip at depth 2 has just ended, the other thread never having moved.
C5_Witness ==
    \E t \in RecThreads :
        /\ quiet[t] = "restored" /\ Idle(t) /\ tokens[t] = <<>>
        /\ owner = GetCurrentThreadId(t) /\ recursion = 2 /\ HoldsInner(t)

\* C6: suspend with balanced reentrancy.  When the suspending thread called
\* lock() and unlock() in the token's window, net zero, the destruction takes
\* the inner lock again and ends with owner = that thread and recursion = d.
C6_BalancedReentrancy ==
    [][\A t \in RecThreads :
          LET balanced == Last(calls[t]).relocked /\ Top(t) = 0 /\ Releasing(t)
          IN  /\ (DestroyBegins(t) /\ balanced)
                    => InInnerLock(t, "rd_store")'
              /\ (Restored(t) /\ balanced)
                    => /\ owner' = GetCurrentThreadId(t)
                       /\ recursion' = Saved(t)
                       /\ is_locked(t)' = 1]_vars

\* Depth 2, suspend, lock() and unlock() in the window, and the destruction
\* has re-acquired the inner lock and is about to restore the depth.
C6_Witness ==
    \E t \in RecThreads :
        /\ pc[t] = "rd_write" /\ Last(calls[t]).relocked /\ Top(t) = 0
        /\ Saved(t) = 2 /\ Last(tokens[t]).recursion = 2
        /\ owner = GetCurrentThreadId(t) /\ HoldsInner(t)

\* C7: suspend releases to others.  While T1's token is alive and T1 is at
\* rest holding nothing, a lock() of T2 that is the only contender finds its
\* ticket served at its first load, and T2 at rest after that lock() is the
\* owner at depth 1; while T2 holds the inner lock T1's token
\* destruction is before its writes of owner and recursion; and the
\* destruction, T1 not having re-locked, ends with owner = T1, recursion = d.
C7_ReleasesToOthers ==
    /\ [](\A t1, t2 \in RecThreads :
            t1 # t2 =>
              /\ (Releasing(t1) /\ Idle(t1) /\ Top(t1) = 0
                    /\ pc[t2] = "tl_load" /\ ret[t2] = "rl_store" /\ queue = <<t2>>)
                   => TicketIsServed(ticket[t2], now_serving)
              /\ (Releasing(t1) /\ Top(t1) = 0 /\ Idle(t2) /\ Top(t2) = 1)
                   => (owner = GetCurrentThreadId(t2) /\ recursion = 1)
              /\ (HoldsInner(t2) /\ Releasing(t1))
                   => pc[t1] \notin {"rd_store", "rd_read", "rd_write"})
    /\ [][\A t \in RecThreads :
            (Restored(t) /\ quiet[t] = "no" /\ ~Last(calls[t]).relocked /\ Top(t) = 0)
               => /\ owner' = GetCurrentThreadId(t)
                  /\ recursion' = Saved(t)]_vars

\* T2 owns the lock at depth 1 while T1, suspended at depth 2, sleeps in the
\* inner lock() of its token's destruction.
C7_Witness ==
    \E t1, t2 \in RecThreads :
        /\ t1 # t2
        /\ Releasing(t1) /\ Saved(t1) = 2
        /\ pc[t1] = "tl_asleep" /\ ret[t1] = "rd_store"
        /\ Idle(t2) /\ owner = GetCurrentThreadId(t2) /\ recursion = 1

lockstate == <<owner, recursion, next_ticket, now_serving>>

\* C8: no-op suspend.  suspend() by a thread that holds nothing is one step
\* that leaves owner, recursion and the ticket counters alone and makes the
\* token (0, 0); destroying a (0, 0) token is one step that leaves them alone.
C8_NoOpSuspend ==
    [][\A t \in RecThreads :
          /\ (Idle(t) /\ Top(t) = 0 /\ (Len(tokens'[t]) > Len(tokens[t]) \/ pc'[t] = "rs_read"))
                => /\ Idle(t)'
                   /\ tokens'[t] = Append(tokens[t], [owner |-> 0, recursion |-> 0])
                   /\ UNCHANGED lockstate
          /\ (Idle(t) /\ tokens[t] # <<>> /\ Last(tokens[t]).owner = 0
                /\ (Len(tokens'[t]) < Len(tokens[t]) \/ DestroyBegins(t)))
                => /\ Idle(t)'
                   /\ tokens'[t] = Front(tokens[t])
                   /\ UNCHANGED lockstate]_vars

\* A (0, 0) token is alive on a thread while the other thread owns the lock
\* at depth 2.
C8_Witness ==
    \E t, u \in RecThreads :
        /\ t # u /\ Idle(t) /\ tokens[t] = <<[owner |-> 0, recursion |-> 0]>>
        /\ owner = GetCurrentThreadId(u) /\ recursion = 2

\* C9: per-thread view.  is_locked() returns 1 to a thread with unmatched
\* lock() calls in its window and 0 to every other thread, recursion_depth()
\* returns the number of those calls, and neither changes the lock.
C9_PerThreadView ==
    /\ [](\A t \in RecThreads :
            /\ pc[t] = "rq_locked" => result[t] = (IF Top(t) > 0 THEN 1 ELSE 0)
            /\ pc[t] = "rq_depth" => result[t] = Top(t)
            /\ (pc[t] \in {"rq_locked", "rq_depth", "rq_read"} /\ owner # GetCurrentThreadId(t))
                  => Top(t) = 0)
    /\ [][\A t \in RecThreads :
            (pc'[t] \in {"rq_locked", "rq_depth", "rq_read"} \/ pc[t] \in {"rq_locked", "rq_depth", "rq_read"})
               => (pc'[t] # pc[t] => UNCHANGED lockstate)]_vars

\* recursion_depth() has returned 0 to a thread while the other thread holds
\* the lock at depth 2.
C9_Witness ==
    \E t, u \in RecThreads :
        /\ t # u /\ pc[t] = "rq_depth" /\ result[t] = 0
        /\ owner = GetCurrentThreadId(u) /\ recursion = 2 /\ Idle(u)

\* C10 as stated: recursion > 0 iff owner != 0, in every state.
C10_Original == (recursion > 0) <=> (owner # 0)

\* Thread t is between the write of owner and the write of recursion of the
\* lock(), unlock(), suspend() or token destruction it is executing.
BetweenWrites(t) == pc[t] \in {"rl_read", "rl_write", "ru_store", "rs_zero", "rd_read", "rd_write"}

\* C10, amended: recursion > 0 iff owner != 0 in every state in which no
\* thread is between the owner write and the recursion write of a call.
C10_Amended ==
    (\A t \in RecThreads : ~BetweenWrites(t)) => ((recursion > 0) <=> (owner # 0))

\* The lock is held at depth 2 by a thread at rest while the other sleeps in lock().
C10_Witness ==
    \E t, u \in RecThreads :
        /\ t # u /\ Idle(t) /\ owner = GetCurrentThreadId(t) /\ recursion = 2
        /\ pc[u] = "tl_asleep"

\* The positions at which the next step of t writes owner or recursion.
AtWrite(t) == pc[t] \in {"rl_store", "rl_write", "ru_write", "ru_store",
                         "rs_store", "rs_zero", "rd_store", "rd_write"}

\* t has read recursion and not yet written it back: _recursion++ of lock(),
\* --_recursion of unlock(), the capture-then-zero of suspend() and
\* _recursion += of the token destruction.
InRecursionUpdate(t) == pc[t] \in {"rl_write", "ru_write", "rs_store", "rs_zero", "rd_write"}

\* C11: mutation discipline.  A thread about to write owner or recursion
\* holds the inner ticket_lock and no other thread does; every step that
\* changes owner or recursion is a step of such a thread; and at most one
\* thread is between its read and its write of recursion.
C11_MutationDiscipline ==
    /\ [](/\ \A t \in RecThreads :
               AtWrite(t) => /\ HoldsInner(t)
                             /\ \A u \in RecThreads : u # t => ~HoldsInner(u)
          /\ Cardinality({t \in RecThreads : InRecursionUpdate(t)}) <= 1)
    /\ [][(owner' # owner \/ recursion' # recursion) =>
             \E t \in RecThreads : AtWrite(t) /\ HoldsInner(t) /\ pc'[t] # pc[t]]_vars

\* A token destruction that had to wait for the other thread is about to add
\* its depth to recursion, while the other thread sleeps in the inner lock().
C11_Witness ==
    \E t, u \in RecThreads :
        /\ t # u /\ pc[t] = "rd_write" /\ Top(t) = 0 /\ Saved(t) = 2
        /\ pc[u] = "tl_asleep"

\* t is in the first lock() of its window, which has not returned.
InFirstLock(t) ==
    Top(t) = 1 /\ (InInnerLock(t, "rl_store") \/ pc[t] \in {"rl_store", "rl_read", "rl_write"})

\* t is in a suspend() that releases the lock.
InSuspend(t) == pc[t] \in {"rs_read", "rs_store", "rs_zero", "rs_ret"} \/ ret[t] = "rs_ret"

\* t is inside a critical section: it has unmatched lock() calls in its
\* window, the first of them has returned, and it is not suspending.
Entered(t) == Top(t) > 0 /\ ~InFirstLock(t) /\ ~InSuspend(t)

\* C12: mutual exclusion of recursive_ticket_lock.  A thread inside a
\* critical section holds the inner lock, no other thread is inside one or
\* holds the inner lock (so no lock() of another thread has returned), and a
\* thread at rest or waiting in its token's destruction, its token alive and
\* nothing re-locked, neither holds the inner lock nor is the owner.
C12_RecursiveMutualExclusion ==
    \A t \in RecThreads :
        /\ Entered(t) =>
              /\ HoldsInner(t)
              /\ \A u \in RecThreads : u # t => (~Entered(u) /\ ~HoldsInner(u))
        /\ (Releasing(t) /\ Top(t) = 0 /\ (Idle(t) \/ InInnerLock(t, "rd_store")))
              => (~HoldsInner(t) /\ owner # GetCurrentThreadId(t))

\* One thread is inside at depth 2 while the other, suspended at depth 1,
\* waits in the inner lock() of its token's destruction.
C12_Witness ==
    \E t, u \in RecThreads :
        /\ t # u /\ Idle(t) /\ Top(t) = 2 /\ Entered(t)
        /\ Releasing(u) /\ Top(u) = 0 /\ InLock(u) /\ ret[u] = "rd_store"

\* History: the lock() calls of t that have taken their ticket.
TicketsTaken(t) == iter[t] + (IF pc[t] \in {"tl_fetch", "done"} THEN 0 ELSE 1)

RECURSIVE SumTaken(_)
SumTaken(S) == IF S = {} THEN 0
               ELSE LET t == CHOOSE x \in S : TRUE IN TicketsTaken(t) + SumTaken(S \ {t})

\* History: all tickets issued so far; next_ticket has wrapped to 0 once
\* this reaches TicketMod.
Issued == SumTaken(Threads)

\* C13: ticket wraparound.  With fewer threads than ticket values, once
\* next_ticket has wrapped still at most one thread holds the lock, the
\* holder is the earliest ticket not yet unlocked, and every thread that took
\* its ticket later is still inside lock().
C13_Wraparound ==
    (NumThreads < TicketMod /\ Issued >= TicketMod) =>
        /\ \A t, u \in Threads : (Holding(t) /\ Holding(u)) => t = u
        /\ \A t \in Threads : Holding(t) => queue[1] = t
        /\ \A i \in 2 .. Len(queue) : InLock(queue[i])

\* The outstanding tickets straddle the wrap: the holder has the last ticket
\* value, the next thread in line waits with ticket 0.
C13_Witness ==
    /\ Issued >= TicketMod /\ next_ticket < now_serving
    /\ now_serving = TicketMod - 1
    /\ Len(queue) >= 2 /\ Holding(queue[1])
    /\ InLock(queue[2]) /\ ticket[queue[2]] = 0

\* A step of t inside a lock() it called as the owner: the call starts with
\* unmatched lock() calls in the window, or is past its owner test with two.
ReentrantLockStep(t) ==
    /\ pc'[t] # pc[t]
    /\ \/ Idle(t) /\ Top(t) >= 1 /\ Len(calls'[t]) = Len(calls[t]) /\ Top(t)' = Top(t) + 1
       \/ pc[t] \in {"rl_read", "rl_write"} /\ Top(t) >= 2

\* A step of t inside an unlock() it called at depth > 1.
ReentrantUnlockStep(t) ==
    /\ pc'[t] # pc[t]
    /\ \/ Idle(t) /\ Top(t) >= 2 /\ Len(calls'[t]) = Len(calls[t]) /\ Top(t)' = Top(t) - 1
       \/ pc[t] = "ru_write" /\ Top(t) >= 1

\* C14: re-entrant operations do not touch the queue.  Every step of a
\* lock() by the owner and of an unlock() from depth > 1 leaves next_ticket,
\* now_serving, owner and the order of the ticketed threads alone, moves no
\* other thread, stays out of the inner lock()/unlock(), and changes
\* recursion by exactly +1 (the write of lock()) or -1 (the write of unlock()).
C14_ReentrantFrame ==
    [][\A t \in RecThreads :
          (ReentrantLockStep(t) \/ ReentrantUnlockStep(t)) =>
              /\ UNCHANGED <<next_ticket, now_serving, owner, queue>>
              /\ \A u \in RecThreads : u # t => pc'[u] = pc[u]
              /\ pc'[t] \in {"rl_read", "rl_write", "ru_write", "idle"}
              /\ recursion' = recursion + (IF pc[t] = "rl_write" THEN 1
                                           ELSE IF pc[t] = "ru_write" THEN -1
                                           ELSE 0)]_vars

\* The owner, at depth 1, is about to write recursion in its second lock()
\* while the other thread sleeps in the inner lock().
C14_Witness ==
    \E t, u \in RecThreads :
        /\ t # u /\ pc[t] = "rl_write" /\ Top(t) = 2 /\ recursion = 1
        /\ pc[u] = "tl_asleep" /\ queue = <<t, u>>

\* The step _now_serving.fetch_add(1) of the _lock.unlock() that t called
\* from `from`: "rs_ret" in suspend(), "idle" in the last unlock().
ReleaseStep(t, from) == pc[t] = "tu_inc" /\ ret[t] = from /\ pc'[t] = "tu_notify"

\* The effect of releasing the inner lock on the lock's state.
FullRelease(t) ==
    /\ owner = 0 /\ recursion = 0 /\ queue[1] = t
    /\ owner' = 0 /\ recursion' = 0
    /\ now_serving' = Inc(now_serving) /\ next_ticket' = next_ticket
    /\ queue' = Tail(queue)

\* C15: suspend() is a full release.  suspend() by the owner at depth d >= 1
\* releases the inner lock from the state, and with the effect, of the d-th
\* of d unlock() calls: owner = 0, recursion = 0, now_serving advanced by
\* one, next_ticket unchanged; its other steps leave the ticket counters
\* alone; its notify wakes at most one waiter; and its token is (owner id, d).
C15_SuspendIsFullRelease ==
    [][\A t \in RecThreads :
          /\ (ReleaseStep(t, "rs_ret") \/ ReleaseStep(t, "idle")) => FullRelease(t)
          /\ ReleaseStep(t, "rs_ret") => Top(t) >= 1
          /\ (InSuspend(t) /\ pc'[t] # pc[t] /\ ~ReleaseStep(t, "rs_ret")) => UNCHANGED tlvars
          /\ (pc[t] = "tu_notify" /\ pc'[t] # pc[t]) =>
                Cardinality({u \in RecThreads : pc[u] = "tl_asleep" /\ pc'[u] # pc[u]}) <= 1
          /\ (pc[t] = "rs_ret" /\ pc'[t] # pc[t]) =>
                /\ Top(t) >= 1
                /\ tokens'[t] = Append(tokens[t], [owner |-> GetCurrentThreadId(t),
                                                    recursion |-> Top(t)])]_vars

\* suspend() at depth 2 has released the inner lock and is about to wake the
\* other thread, asleep in lock().
C15_Witness ==
    \E t, u \in RecThreads :
        /\ t # u /\ pc[t] = "tu_notify" /\ ret[t] = "rs_ret" /\ Top(t) = 2 /\ tmp[t] = 2
        /\ owner = 0 /\ recursion = 0 /\ pc[u] = "tl_asleep" /\ queue = <<u>>

\* t is destroying a releasing token while it holds the lock again, from
\* unmatched lock() calls of the token's window.
DestroyWhileHeld(t) == Releasing(t) /\ Top(t) >= 1

\* C16: token destruction adds.  Destroying a token of depth d while the same
\* thread holds the lock at depth j >= 1 skips the inner lock(), leaves the
\* ticket counters alone at every step, and ends with owner = that thread and
\* recursion = d + j, the number of unlock() calls then outstanding; and
\* whenever every thread is at rest with no unmatched lock() and no ticket is
\* out, owner = 0, recursion = 0 and next_ticket = now_serving.
C16_DestructionAdds ==
    /\ [][\A t \in RecThreads :
            /\ (DestroyBegins(t) /\ DestroyWhileHeld(t)) => pc'[t] = "rd_read"
            /\ (DestroyWhileHeld(t) /\ (DestroyBegins(t) \/ pc[t] \in {"rd_read", "rd_write"})
                  /\ pc'[t] # pc[t]) => UNCHANGED tlvars
            /\ (Restored(t) /\ DestroyWhileHeld(t)) =>
                  /\ owner' = GetCurrentThreadId(t)
                  /\ recursion' = Saved(t) + Top(t)
                  /\ Top(t)' = Saved(t) + Top(t)
                  /\ Saved(t) >= 1]_vars
    /\ []((queue = <<>> /\ \A t \in RecThreads : Idle(t) /\ Top(t) = 0) =>
             (owner = 0 /\ recursion = 0 /\ next_ticket = now_serving))

\* Suspended at depth 2, the thread locked once in the window and its token's
\* destruction is about to add 2 to recursion = 1.
C16_Witness ==
    \E t \in RecThreads :
        /\ pc[t] = "rd_write" /\ Top(t) = 1 /\ Saved(t) = 2 /\ Last(tokens[t]).recursion = 2
        /\ owner = GetCurrentThreadId(t) /\ recursion = 1 /\ tmp[t] = 1

\* ---- ticket_lock outside its contract: properties --------------------

\* A holder has ended without unlock().
Forgot == \E t \in Threads : pc[t] = "m_forgot"

\* The fetch_add of a second unlock() for one lock() has run.
Doubled ==
    \E t \in Threads : pc[t] = "m_twice_done" \/ (pc[t] = "tu_notify" /\ ret[t] = "m_twice_done")

\* t waits in lock() with a ticket that now_serving has already passed.
Doomed(t) == InLock(t) /\ ticket[t] < now_serving

\* Every thread that has a ticket is still inside lock().
AllWaiting == \A i \in 1 .. Len(queue) : InLock(queue[i])

\* Some call of lock() cannot return: a waiting one, or the next one made.
Stuck ==
    IF queue = <<>> THEN Inc(next_ticket) = now_serving
    ELSE \E t \in Threads : Doomed(t)

\* C17: misuse leads to deadlock, with fewer than TicketMod lock() calls.
\* (a) Once a holder has ended without unlock(), no lock() has returned to
\* any other thread: each is at rest, inside lock(), or finishing an earlier
\* unlock().  (b) A lock() whose ticket now_serving has passed never returns;
\* after a second unlock() for one lock(), whenever all ticketed threads are
\* inside lock() one of them is such a call, or none is ticketed and the next
\* ticket issued is already passed; and under fair scheduling that happens.
C17_MisuseDeadlocks ==
    /\ [](Forgot => \A u \in Threads :
                        pc[u] \in {"m_forgot", "m_idle", "tl_fetch", "tl_load", "tl_wait",
                                   "tl_asleep", "tl_reload", "tu_notify"})
    /\ [][\A t \in Threads : Doomed(t) => Doomed(t)']_vars
    /\ []((Doubled /\ AllWaiting) => Stuck)
    /\ (Doubled ~> (AllWaiting /\ Stuck))

\* After a double unlock() a thread sleeps in lock() with ticket 1 while
\* now_serving is already 2.
C17_Witness ==
    \E t \in Threads :
        /\ Doubled /\ pc[t] = "tl_asleep" /\ ticket[t] = 1 /\ now_serving = 2
        /\ Doomed(t) /\ queue = <<t>>

\* ---- recursive_ticket_lock shared by two threads: properties ---------

\* t is inside the inner lock() of a lock() call or of a token destruction.
InInner(t) == pc[t] = "tl_fetch" \/ InLock(t)

\* C18: two-thread liveness.  With exactly two threads, fairly scheduled:
\* at most one thread sleeps in the wait on now_serving; a sleeper whose
\* ticket is being served has the other thread about to notify it; every
\* inner lock() of a lock() call or of a token destruction returns; and every
\* call that was begun completes.
C18_TwoThreadLiveness ==
    /\ [](Cardinality({t \in Pair : pc[t] = "tl_asleep"}) <= 1)
    /\ [](\A t, u \in Pair :
            (t # u /\ pc[t] = "tl_asleep" /\ ticket[t] = now_serving) => pc[u] = "tu_notify")
    /\ \A t \in Pair : InInner(t) ~> ~InInner(t)
    /\ \A t \in Pair : ~Idle(t) ~> Idle(t)

\* A token destruction sleeps in the inner lock() while the other thread,
\* which took the lock during the suspension, has released it and is about
\* to notify.
C18_Witness ==
    \E t, u \in Pair :
        /\ t # u /\ pc[t] = "tl_asleep" /\ ret[t] = "rd_store"
        /\ ticket[t] = now_serving /\ pc[u] = "tu_notify"

\* ---- ticket_lock: accounting ------------------------------------------

\* (next_ticket - now_serving) mod 2^w
Outstanding == (next_ticket + TicketMod - now_serving) % TicketMod

\* C19: ticket accounting.  With fewer threads than ticket values,
\* (next_ticket - now_serving) mod 2^w is the number of threads that took a
\* ticket and have not run the fetch_add of their unlock(); the i-th of them
\* in ticket order, while inside lock(), has ticket now_serving + i - 1, so
\* the waiters' tickets are distinct and lie in [now_serving, next_ticket);
\* and nobody has a ticket exactly when next_ticket = now_serving.
C19_TicketAccounting ==
    NumThreads < TicketMod =>
        /\ Outstanding = Len(queue)
        /\ \A i \in 1 .. Len(queue) :
              InLock(queue[i]) =>
                  /\ ticket[queue[i]] = (now_serving + i - 1) % TicketMod
                  /\ (ticket[queue[i]] + TicketMod - now_serving) % TicketMod < Outstanding
        /\ \A i, j \in 1 .. Len(queue) :
              (i # j /\ InLock(queue[i]) /\ InLock(queue[j])) => ticket[queue[i]] # ticket[queue[j]]
        /\ (queue = <<>>) <=> (next_ticket = now_serving)

\* Three tickets are out across the wrap: now_serving = 2, next_ticket = 1,
\* the holder was served ticket 2 and the two waiters have tickets 3 and 0.
C19_Witness ==
    /\ now_serving = 2 /\ next_ticket = 1 /\ Len(queue) = 3
    /\ Holding(queue[1])
    /\ InLock(queue[2]) /\ ticket[queue[2]] = 3
    /\ InLock(queue[3]) /\ ticket[queue[3]] = 0

\* ---- recursive_ticket_lock: the owner field -------------------------

\* t holds the inner ticket_lock and no other thread does.
SoleHolder(t) == HoldsInner(t) /\ \A u \in RecThreads : u # t => ~HoldsInner(u)

\* C20: owner implies inner lock held.  Whenever owner is t's identifier, t
\* is the one holder of the inner lock and first in ticket order; and every
\* call whose relaxed read of owner finds the caller (a lock() or token
\* destruction that skips _lock.lock(), a suspend() that releases) is made by
\* the one holder of the inner lock.
C20_OwnerHoldsInner ==
    /\ [](\A t \in RecThreads :
            owner = GetCurrentThreadId(t) => (SoleHolder(t) /\ queue[1] = t))
    /\ [][\A t \in RecThreads :
            (Idle(t) /\ pc'[t] \in {"rl_read", "rs_read", "rd_read"}) =>
                (owner = GetCurrentThreadId(t) /\ SoleHolder(t))]_vars

\* The owner's suspend() has read owner and goes on to release, while the
\* other thread waits in the inner lock() with the next ticket.
C20_Witness ==
    \E t, u \in RecThreads :
        /\ t # u /\ pc[t] = "rs_read" /\ owner = GetCurrentThreadId(t)
        /\ queue = <<t, u>> /\ InLock(u)

====
